---- MODULE Spec2Model ----
(***************************************************************************)
(* Model of the real-time client of toolbanhangUIUX:                       *)
(* src/src/services/websocket.ts (class WebSocketService) together with    *)
(* the STOMP sessions it creates and the timers it arms, and its two        *)
(* consumers: OrdersPage (src/src/pages/OrdersPage.tsx: order list, deleted *)
(* ids, marked items, fetches) and WebSocketProvider (unnamed/part_007).    *)
(*                                                                         *)
(* The service is a singleton run by the browser event loop: each action   *)
(* below is one callback run to completion (a public method called by the  *)
(* UI, a window event, a timer, or a callback of a STOMP client).          *)
(***************************************************************************)
EXTENDS Integers, Sequences, FiniteSets, TLC

\* ------------------------------------------------------------------------
\* Bounds of the model
\* ------------------------------------------------------------------------
\* number of STOMP clients connect() may create in one behaviour
MaxSessions == 2
\* cap of the reconnectAttempts counter
MaxAttempts == 4
\* number of pending 100 ms timeouts (connect step, subscribe step)
MaxTimeouts == 1
\* number of subscribe steps that subscribe on one session
MaxSubs == 1
\* timer handles the browser hands out (reused once cleared and forgotten)
MaxTimerId == 3
\* number of callbacks registered with on() in one behaviour
MaxCallbacks == 3
\* number of frames handed to the topic handlers in one behaviour
MaxFrames == 2
\* number of calls of fetchOrders awaiting their response
MaxFetches == 1
\* length of deletedOrderIds of one page
MaxDeleted == 1
\* minutes the clock of the page runs
MaxClock == 6
\* times the listener effect of OrdersPage runs in one behaviour
MaxEffects == 2

\* ------------------------------------------------------------------------
\* Program constants
\* ------------------------------------------------------------------------
\* websocket.ts:346  Math.min(5000 * Math.pow(2, attempts), 20000)
BaseDelay == 5000
CapDelay == 20000

Sessions == 1..MaxSessions
TimerIds == 1..MaxTimerId

Min(a, b) == IF a <= b THEN a ELSE b

RECURSIVE Pow2(_)
Pow2(n) == IF n = 0 THEN 1 ELSE 2 * Pow2(n - 1)

\* the backoff capped at 30 s instead of 20 s
ReconnectDelay_Cap30(n) == Min(BaseDelay * Pow2(n), 30000)

\* websocket.ts:346  the delay of the reconnect scheduled at counter value n
ReconnectDelay(n) == Min(BaseDelay * Pow2(n), CapDelay)

\* ------------------------------------------------------------------------
\* Values passed to callbacks
\* ------------------------------------------------------------------------
NoError == [kind |-> "none", message |-> ""]

\* what the STOMP client may hand to the connect-failure callback
\* (websocket.ts:92 `error: any`): an Error or a plain string
Errors ==
  { [kind |-> "Error", message |-> "refused"],
    [kind |-> "String", message |-> "Lost connection"] }

\* websocket.ts:101  error.toString()
ErrorToString(e) ==
  IF e.kind = "Error"
  THEN IF e.message = "" THEN <<"Error">> ELSE <<"Error", ": ", e.message>>
  ELSE <<e.message>>

\* a value handed to listeners: its JavaScript type and its text
Value(type, text) == [type |-> type, text |-> text]

\* websocket.ts:316-328  emitEvent(event, data): the event handed to the
\* listeners of `event`
Event(name, data) == [name |-> name, data |-> data]

\* ------------------------------------------------------------------------
\* Frames: a body is a string, modelled as the sequence of its characters
\* ------------------------------------------------------------------------
Quote == "\""

\* the body of the frames of the connection model: the JSON handlers drop
\* it and the deletion handler delivers it (FrameBodies below has the
\* bodies the handlers themselves are run on)
Bodies == { <<"{">> }

Topics == {"/topic/orders", "/topic/orders/deleted", "/topic/payments",
           "/topic/order-item-marks", "/topic/pong"}

\* JSON.parse on the bodies of this model: an object, a string without
\* inner quotes, or a SyntaxError
IsJSONObject(b) == b = <<"{", "}">>
IsJSONString(b) ==
  /\ Len(b) >= 2
  /\ b[1] = Quote
  /\ b[Len(b)] = Quote
  /\ \A i \in 2..(Len(b) - 1) : b[i] # Quote

JSONParse(b) ==
  IF IsJSONObject(b) THEN [ok |-> TRUE, value |-> Value("object", b)]
  ELSE IF IsJSONString(b)
       THEN [ok |-> TRUE, value |-> Value("string", SubSeq(b, 2, Len(b) - 1))]
       ELSE [ok |-> FALSE, value |-> Value("SyntaxError", <<>>)]

\* the quote removed at each end on its own
StripQuotes_Trim(b) ==
  LET front == IF Len(b) >= 1 /\ b[1] = Quote THEN Tail(b) ELSE b
  IN IF Len(front) >= 1 /\ front[Len(front)] = Quote
     THEN SubSeq(front, 1, Len(front) - 1)
     ELSE front

\* websocket.ts:155-161  the order id of a frame of /topic/orders/deleted
StripQuotes(b) ==
  IF Len(b) >= 1 /\ b[1] = Quote /\ b[Len(b)] = Quote
  THEN SubSeq(b, 2, Len(b) - 1)
  ELSE b

\* handlers that emit their event even when JSON.parse failed
TopicEvents_EmitUnparsed(topic, b) ==
  CASE topic = "/topic/orders" ->
         <<Event("order_update", JSONParse(b).value)>>
    [] topic = "/topic/orders/deleted" ->
         <<Event("order_deleted", Value("string", StripQuotes(b)))>>
    [] topic = "/topic/payments" ->
         <<Event("payment_update", JSONParse(b).value)>>
    [] topic = "/topic/order-item-marks" ->
         <<Event("order_item_marked", JSONParse(b).value)>>
    [] OTHER -> <<>>

\* websocket.ts:141-201  the events the handler of `topic` emits for one
\* frame
TopicEvents(topic, b) ==
  CASE topic = "/topic/orders" ->
         IF JSONParse(b).ok
         THEN <<Event("order_update", JSONParse(b).value)>> ELSE <<>>
    [] topic = "/topic/orders/deleted" ->
         <<Event("order_deleted", Value("string", StripQuotes(b)))>>
    [] topic = "/topic/payments" ->
         IF JSONParse(b).ok
         THEN <<Event("payment_update", JSONParse(b).value)>> ELSE <<>>
    [] topic = "/topic/order-item-marks" ->
         IF JSONParse(b).ok
         THEN <<Event("order_item_marked", JSONParse(b).value)>> ELSE <<>>
    [] OTHER -> <<>>

\* ------------------------------------------------------------------------
\* websocket.ts:299-328  the listener table: on / off / emitEvent
\* ------------------------------------------------------------------------
\* the events callers of on / off / emitEvent are driven with
BusEvents == {"connect", "order_item_marked"}
EventNames == BusEvents \cup
  {"disconnect", "connect_error", "order_update", "order_deleted",
   "payment_update", "test_message"}

\* what a registered callback does when it is invoked: return, throw, or
\* call off / on for the event being emitted
Behaviours == {"return", "throw", "off", "on"}

Callback(id, does) == [id |-> id, does |-> does]

\* websocket.ts:299-305  on(event, callback): push on the list of the
\* event (an event without list has the empty one)
on(tbl, event, cb) == [tbl EXCEPT ![event] = Append(@, cb)]

\* off(event) that removes the most recent callback only
off_RemoveLast(tbl, event) ==
  [tbl EXCEPT ![event] = IF @ = <<>> THEN <<>> ELSE SubSeq(@, 1, Len(@) - 1)]

\* websocket.ts:308-313  off(event): delete the list of the event
off(tbl, event) == [tbl EXCEPT ![event] = <<>>]

\* An emission in progress: arr is the array forEach iterates, attached
\* tells whether the table still holds that array for the event (off
\* deletes the entry and leaves the array alone), tbl is the table, calls
\* the callbacks invoked so far, thrown whether an exception escaped, next
\* the id of the next registration.
Emission(tbl, event, next) ==
  [arr |-> tbl[event], attached |-> TRUE, tbl |-> tbl, calls |-> <<>>,
   thrown |-> FALSE, next |-> next]

\* what the body of callback cb does to the table
Body(cb, event, e) ==
  CASE cb.does = "off" ->
         [e EXCEPT !.tbl = off(@, event), !.attached = FALSE]
    [] cb.does = "on" ->
         IF e.attached
         THEN [e EXCEPT !.arr = Append(@, Callback(e.next, "return")),
                        !.tbl = on(@, event, Callback(e.next, "return")),
                        !.next = @ + 1]
         ELSE [e EXCEPT !.tbl = on(@, event, Callback(e.next, "return")),
                        !.next = @ + 1]
    [] OTHER -> e

\* the call of a callback without the try / catch around it
Invoke_NoCatch(cb, event, e) ==
  LET called == [e EXCEPT !.calls = Append(@, cb.id)]
  IN IF cb.does = "throw"
     THEN [called EXCEPT !.thrown = TRUE]
     ELSE Body(cb, event, called)

\* websocket.ts:321-325  try { callback(data) } catch { log }
Invoke(cb, event, e) ==
  LET called == [e EXCEPT !.calls = Append(@, cb.id)]
  IN Body(cb, event, called)

RECURSIVE forEach_Live(_, _, _, _)
RECURSIVE forEach(_, _, _, _)

\* an iteration that reads the table again at every index
forEach_Live(k, n, event, e) ==
  IF k > Len(e.tbl[event]) \/ e.thrown
  THEN e
  ELSE forEach_Live(k + 1, n, event, Invoke(e.tbl[event][k], event, e))

\* websocket.ts:320  listeners.forEach: the indices 1..n of the array the
\* emission started with, n being its length at the start
forEach(k, n, event, e) ==
  IF k > n \/ e.thrown
  THEN e
  ELSE forEach(k + 1, n, event, Invoke(e.arr[k], event, e))

\* websocket.ts:316-328  emitEvent(event, data)
emitEvent(tbl, event, next) ==
  forEach(1, Len(tbl[event]), event, Emission(tbl, event, next))

\* the number of registrations an emission of `event` makes
Registers(tbl, event) ==
  Cardinality({i \in 1..Len(tbl[event]) : tbl[event][i].does = "on"})

\* ------------------------------------------------------------------------
\* Frames handed to the topic handlers (websocket.ts:141-201)
\* ------------------------------------------------------------------------
FrameBodies ==
  { <<Quote, "abc-123", Quote>>,         \* an identifier in double quotes
    <<"abc-123">>,                       \* a bare identifier
    <<Quote, Quote, "a", Quote, Quote>>, \* two layers of quotes
    <<Quote>>,                           \* one double quote
    <<Quote, "a">>,                      \* an opening quote only
    <<"{", "}">>,                        \* a JSON object
    <<"{">> }                            \* a truncated JSON object

Frames == [topic : Topics, body : FrameBodies]

\* ------------------------------------------------------------------------
\* OrdersPage.tsx: the marked items of the orders.  A Map is the sequence
\* of its entries and a Set the sequence of its elements, both in insertion
\* order (the order Array.from and Object.fromEntries read them in).
\* ------------------------------------------------------------------------
Clients == {1, 2}
Orders == {"orderA", "orderB"}
Items == {"item1", "item2"}

\* the payload of order_item_marked and of the outbound intent
MarkEvents == [orderId : Orders, itemId : Items, marked : BOOLEAN]
NoEvt == [orderId |-> "", itemId |-> "", marked |-> FALSE]

\* Set.has / Set.add / Set.delete
SetHas(st, x) == \E i \in 1..Len(st) : st[i] = x
SetAdd(st, x) == IF SetHas(st, x) THEN st ELSE Append(st, x)
SetDelete(st, x) == SelectSeq(st, LAMBDA y : y # x)

\* Map.has / Map.get(k) || [] / Map.set / Map.delete
MapHas(m, k) == \E i \in 1..Len(m) : m[i].key = k
MapGet(m, k) ==
  IF MapHas(m, k)
  THEN m[CHOOSE i \in 1..Len(m) : m[i].key = k].value
  ELSE <<>>
MapSet(m, k, v) ==
  IF MapHas(m, k)
  THEN [i \in 1..Len(m) |-> IF m[i].key = k THEN [key |-> k, value |-> v]
                                             ELSE m[i]]
  ELSE Append(m, [key |-> k, value |-> v])
MapDelete(m, k) == SelectSeq(m, LAMBDA en : en.key # k)

\* localStorage.getItem of a key never written
NoItem == [kind |-> "null", entries |-> <<>>]

\* OrdersPage.tsx:197-201  JSON.stringify(Object.fromEntries(entries with
\* each Set turned into an array)): the text of an object
Serialize(m) == [kind |-> "json", entries |-> m]

\* the remote event replacing the set of the order by the item alone
handleMarkEvt_Replace(m, evt) ==
  MapSet(m, evt.orderId, IF evt.marked THEN <<evt.itemId>> ELSE <<>>)

\* OrdersPage.tsx:184-196  the updater of handleMarkEvt
handleMarkEvt(m, evt) ==
  LET setForOrder == MapGet(m, evt.orderId)
  IN MapSet(m, evt.orderId,
            IF evt.marked THEN SetAdd(setForOrder, evt.itemId)
                          ELSE SetDelete(setForOrder, evt.itemId))

\* OrdersPage.tsx:963-964  willMark
willMark(m, orderId, itemId) == ~SetHas(MapGet(m, orderId), itemId)

\* OrdersPage.tsx:966-982  the updater of handleToggleMark
handleToggleMark(m, orderId, itemId) ==
  LET orderMarkedItems ==
        IF willMark(m, orderId, itemId)
        THEN SetAdd(MapGet(m, orderId), itemId)
        ELSE SetDelete(MapGet(m, orderId), itemId)
  IN IF orderMarkedItems = <<>>
     THEN MapDelete(m, orderId)
     ELSE MapSet(m, orderId, orderMarkedItems)

\* unnamed/part_007:85-91  the fields of the value useWebSocket() returns
ContextValue == {"isConnected", "connect", "disconnect", "on", "off"}

\* OrdersPage.tsx:95 and 998-1004  send taken from useWebSocket() and
\* called inside try / catch: a field the value lacks is undefined and the
\* call throws a TypeError that the catch logs; otherwise the service's
\* send() transmits when it is connected (websocket.ts:285-296)
sendIntent(isLinked, evt) ==
  IF "send" \in ContextValue /\ isLinked
  THEN <<[destination |-> "/app/order-item-marks", body |-> evt]>>
  ELSE <<>>

\* ------------------------------------------------------------------------
\* OrdersPage.tsx: the order list.  An order is its id, its status and the
\* snapshot it comes from (the order just created by this client, a REST
\* response, an order_update event); createdAt is fixed per order.
\* ------------------------------------------------------------------------
Statuses == {"PENDING", "DONE"}
Snapshots == {"created", "fetch", "event"}

Order(id, status, from) == [id |-> id, status |-> status, from |-> from]

createdAt(id) == IF id = "orderA" THEN 1 ELSE 2

\* orders.map(order => order.id)
OrderIds(list) == {list[i].id : i \in 1..Len(list)}

\* prevOrders.find(o => o.id === id) !== undefined
Exists(list, id) == \E i \in 1..Len(list) : list[i].id = id

\* prevOrders.filter(order => order.id !== orderId)
Without(list, id) == SelectSeq(list, LAMBDA o : o.id # id)

\* Array.prototype.sort with (a, b) => createdAt(a) - createdAt(b): stable
sortByCreatedAt(list) ==
  SelectSeq(list, LAMBDA o : createdAt(o.id) = 1) \o
  SelectSeq(list, LAMBDA o : createdAt(o.id) = 2)

\* the value of localStorage.getItem('missedOrderDeletions')
NoMissed == [kind |-> "null", ids |-> <<>>]

\* OrdersPage.tsx:217-245  filterDeletedOrders of a render whose
\* deletedOrderIds is `deleted`: the orders kept, the value passed to
\* setDeletedOrderIds (none when nothing was stored) and the stored list
filterDeletedOrders(list, deleted, missed) ==
  LET allDeletedOrderIds ==
        IF missed.kind = "json" THEN deleted \o missed.ids ELSE deleted
  IN [orders |-> SelectSeq(list,
                           LAMBDA o : ~SetHas(allDeletedOrderIds, o.id)),
      setDeleted |-> missed.kind = "json",
      deletedOrderIds |-> allDeletedOrderIds,
      missed |-> NoMissed]

RECURSIVE unshiftMissing(_, _, _)
\* OrdersPage.tsx:271-276  prevOrders.forEach: an order whose id merged
\* lacks is put at the beginning of merged
unshiftMissing(k, prevOrders, merged) ==
  IF k > Len(prevOrders)
  THEN merged
  ELSE unshiftMissing(k + 1, prevOrders,
                      IF Exists(merged, prevOrders[k].id)
                      THEN merged
                      ELSE <<prevOrders[k]>> \o merged)

\* a merge that keeps every local order
mergeOrders_KeepAll(filteredOrders, prevOrders) ==
  sortByCreatedAt(prevOrders \o filteredOrders)

\* OrdersPage.tsx:267-286  the updater of setOrders in fetchOrders
mergeOrders(filteredOrders, prevOrders) ==
  sortByCreatedAt(unshiftMissing(1, prevOrders, filteredOrders))

\* an update that always adds the order
upsertOrder_Add(prevOrders, updatedOrder) ==
  sortByCreatedAt(<<updatedOrder>> \o prevOrders)

\* OrdersPage.tsx:423-476  the updater of setOrders in handleOrderUpdate
upsertOrder(prevOrders, updatedOrder) ==
  IF Exists(prevOrders, updatedOrder.id)
  THEN LET index == CHOOSE i \in 1..Len(prevOrders) :
                      /\ prevOrders[i].id = updatedOrder.id
                      /\ \A j \in 1..(i - 1) : prevOrders[j].id # updatedOrder.id
       IN sortByCreatedAt([prevOrders EXCEPT ![index] = updatedOrder])
  ELSE sortByCreatedAt(<<updatedOrder>> \o prevOrders)

\* OrdersPage.tsx:404-405  the order went to DONE, judged on the order
\* list of the render the handler was created in
becameDone(closureOrders, updatedOrder) ==
  /\ updatedOrder.status = "DONE"
  /\ \E i \in 1..Len(closureOrders) :
       /\ closureOrders[i].id = updatedOrder.id
       /\ \A j \in 1..(i - 1) : closureOrders[j].id # updatedOrder.id
       /\ closureOrders[i].status # "DONE"

\* OrdersPage.tsx:121-135  the initial markedItems: the Map built from the
\* object JSON.parse returns, the empty Map when nothing is stored
loadMarkedItems(saved) == IF saved.kind = "json" THEN saved.entries ELSE <<>>

\* OrdersPage.tsx:636-669  the effect run when orders changed: the marks of
\* the orders the list lacks are deleted, and the Map is saved when one was
pruneMarkedItems(list, marks, saved) ==
  IF Len(list) > 0 /\ Len(marks) > 0
  THEN LET newMap == SelectSeq(marks, LAMBDA en : en.key \in OrderIds(list))
       IN [markedItems |-> newMap,
           saved |-> IF newMap # marks THEN Serialize(newMap) ELSE saved]
  ELSE [markedItems |-> marks, saved |-> saved]

\* the thresholds of handleVisibilityChange and of the flag timers, in
\* minutes (120000 ms and 300000 ms)
StaleAfter == 2
FreshFor == 5

\* OrdersPage.tsx:340-371  handleVisibilityChange with the values of the
\* render it was created in: TRUE when it calls fetchOrders
refreshNeeded(hasRecentWebSocketData, lastFetchTime, list, now) ==
  LET timeSinceLastFetch == now - lastFetchTime
  IN /\ ~hasRecentWebSocketData
     /\ ~(Len(list) > 0 /\ timeSinceLastFetch < StaleAfter)
     /\ (Len(list) = 0 \/ timeSinceLastFetch > StaleAfter)

\* ------------------------------------------------------------------------
\* State
\* ------------------------------------------------------------------------
VARIABLES
  \* fields of WebSocketService (websocket.ts:6-12)
  stompClient,        \* 0 = null, else the session the field refers to
  isConnected,
  isConnecting,
  reconnectAttempts,
  reconnectTimer,     \* 0 = null, else a timer handle (kept after firing)
  pingTimer,          \* 0 = null, else an interval handle
  \* the STOMP clients created so far
  sessState,          \* "none" | "created" | "opening" | "open" |
                      \* "errored" (ERROR frame received, close follows) |
                      \* "closed"
  sessActive,         \* activated by connect(), deactivated by disconnect()
  subs,               \* subs[s]: how many times each topic is subscribed on s
  \* the browser's timers
  timeouts,           \* pending 100 ms timeouts, in the order they were armed
  reconnectPending,   \* pending reconnect timeouts [id, delay]
  pingPending,        \* running ping intervals
  \* what the last callback did
  lastOp,             \* [name, sess, err]: the callback, the session of a
                      \* success callback or a frame, the error reported
  emitted,            \* events passed to emitEvent, in order
  sent,               \* frames handed to stompClient.send, in order
  \* history
  quiet,              \* disconnect() was called and connect() not since
  needRetry,          \* a failure occurred, no success or disconnect() since
  lastDelay,          \* delay of the last schedule since the last success
  \* the listener table of the service (websocket.ts:11) and one emission
  eventListeners,     \* event name -> callbacks in registration order
  busOp,              \* [name, event]: the last call of on / off / emitEvent
  calls,              \* ids of the callbacks the last emission invoked
  thrown,             \* the last emission threw to its caller
  nextId,             \* callbacks registered so far + 1
  removed,            \* ids of the callbacks taken away by off
  \* the topic handlers (websocket.ts:141-201)
  handled,            \* frames handed to the handlers, in arrival order
  log,                \* events the handlers emitted, in order
  \* OrdersPage of each client (OrdersPage.tsx:119, 183-214, 962-1005)
  markedItems,        \* per client: Map order id -> Set of item ids
  localStorage,       \* per client: the value stored under 'markedItems'
  linked,             \* per client: its service is connected
  outbox,             \* intents the last toggle handed to the transport
  pageOp,             \* the last handler run by a page
  synced,             \* no broadcast was missed by a client
  \* one OrdersPage with its fetches and the browser around it
  page,               \* the state of the mounted component (useState)
  listenerEffect,     \* the render the handlers of the listener effect
                      \* (OrdersPage.tsx:390-633) were created in
  fetches,            \* the calls of fetchOrders awaiting their response
  store,              \* localStorage: 'markedItems', 'missedOrderDeletions'
  now,                \* Date.now(), in minutes
  flagTimers,         \* due times of the pending 5 minute timeouts
  pgOp,               \* [name, id, data]: the last step of the page, the
                      \* order it is about, the orders a fetch delivered
  \* WebSocketProvider (unnamed/part_007) and the listener effect of the page
  provider,           \* mounted, its isConnected state, the ids of the
                      \* callbacks it registered
  consumer            \* the listener effect of OrdersPage: active, times run

svcVars == <<stompClient, isConnected, isConnecting, reconnectAttempts,
             reconnectTimer, pingTimer>>
libVars == <<sessState, sessActive, subs>>
timerVars == <<timeouts, reconnectPending, pingPending>>
outVars == <<lastOp, emitted, sent>>
histVars == <<quiet, needRetry, lastDelay>>
\* the service with its sessions and timers
wsVars == <<svcVars, libVars, timerVars, outVars, histVars>>
busVars == <<eventListeners, busOp, calls, thrown, nextId, removed>>
frameVars == <<handled, log>>
markVars == <<markedItems, localStorage, linked, outbox, pageOp, synced>>
appVars == <<page, listenerEffect, fetches, store, now, flagTimers, pgOp>>
\* what the callbacks of the service leave alone
uiVars == <<busVars, frameVars, markVars, appVars>>

provVars == <<provider, consumer>>

vars == <<wsVars, uiVars, provVars>>

Op(name, s, e) == [name |-> name, sess |-> s, err |-> e]

\* OrdersPage.tsx:92, 119-136, 138-139, 180  the values of the first
\* render, marks being what markedItems is initialised with
FirstRender(marks) ==
  [mounted |-> TRUE, orders |-> <<>>, deletedOrderIds |-> <<>>,
   markedItems |-> marks, lastFetchTime |-> 0,
   hasRecentWebSocketData |-> FALSE]

\* no OrdersPage is mounted
NoPage == [FirstRender(<<>>) EXCEPT !.mounted = FALSE]

\* the handlers of the listener effect see the orders and the
\* deletedOrderIds of the render that created them
Closure(p) == [orders |-> p.orders, deletedOrderIds |-> p.deletedOrderIds]

PgOp(name, id) == [name |-> name, id |-> id, data |-> <<>>]

\* unnamed/part_007:29  no provider is mounted
NoProvider ==
  [mounted |-> FALSE, isConnected |-> FALSE, handleConnect |-> 0,
   handleDisconnect |-> 0, handleConnectError |-> 0]

\* websocket.ts:6-12 and 14-26: the fields after construction
Init ==
  /\ stompClient = 0
  /\ isConnected = FALSE
  /\ isConnecting = FALSE
  /\ reconnectAttempts = 0
  /\ reconnectTimer = 0
  /\ pingTimer = 0
  /\ sessState = [s \in Sessions |-> "none"]
  /\ sessActive = [s \in Sessions |-> FALSE]
  /\ subs = [s \in Sessions |-> 0]
  /\ timeouts = <<>>
  /\ reconnectPending = {}
  /\ pingPending = {}
  /\ lastOp = Op("init", 0, NoError)
  /\ emitted = <<>>
  /\ sent = <<>>
  /\ quiet = FALSE
  /\ needRetry = FALSE
  /\ lastDelay = 0
  /\ eventListeners = [ev \in EventNames |-> <<>>]
  /\ busOp = [name |-> "init", event |-> ""]
  /\ calls = <<>>
  /\ thrown = FALSE
  /\ nextId = 1
  /\ removed = {}
  /\ handled = <<>>
  /\ log = <<>>
  /\ markedItems = [c \in Clients |-> <<>>]
  /\ localStorage = [c \in Clients |-> NoItem]
  /\ linked = [c \in Clients |-> FALSE]
  /\ outbox = <<>>
  /\ pageOp = [name |-> "init", client |-> 0, evt |-> NoEvt]
  /\ synced = TRUE
  /\ page = NoPage
  /\ listenerEffect = Closure(NoPage)
  /\ fetches = <<>>
  /\ store = [markedItems |-> NoItem, missedOrderDeletions |-> NoMissed]
  /\ now = 0
  /\ flagTimers = {}
  /\ pgOp = PgOp("init", "")
  /\ provider = NoProvider
  /\ consumer = [active |-> FALSE, runs |-> 0]

\* ------------------------------------------------------------------------
\* unnamed/part_007:38-51  what the callbacks of the provider make of the
\* events the service emits: handleConnect sets isConnected, handleDisconnect
\* and handleConnectError clear it, when emitEvent still finds them
\* ------------------------------------------------------------------------
Called(tbl, id, event) ==
  /\ id # 0
  /\ event \in EventNames
  /\ LET ids == emitEvent(tbl, event, nextId).calls
     IN \E i \in 1..Len(ids) : ids[i] = id

RECURSIVE setIsConnected(_, _, _, _)
setIsConnected(tbl, k, events, shown) ==
  IF k > Len(events)
  THEN shown
  ELSE setIsConnected(tbl, k + 1, events,
         CASE Called(tbl, provider.handleConnect, events[k].name) -> TRUE
           [] Called(tbl, provider.handleDisconnect, events[k].name) -> FALSE
           [] Called(tbl, provider.handleConnectError, events[k].name) -> FALSE
           [] OTHER -> shown)

\* the listeners run inside the step of the service that emits
Deliver ==
  /\ provider' = [provider EXCEPT !.isConnected =
                    setIsConnected(eventListeners, 1, emitted', @)]
  /\ UNCHANGED consumer

\* ------------------------------------------------------------------------
\* Timers
\* ------------------------------------------------------------------------
PendingIds(pending) == {t.id : t \in pending}

\* the handle setTimeout returns: one that names no pending timer (a handle
\* whose timer fired or was cleared, and that the caller overwrites, may be
\* handed out again)
FreshIds(used) == {i \in TimerIds : i \notin used}
FreshId(used) == CHOOSE i \in FreshIds(used) : \A j \in FreshIds(used) : i <= j

\* clearTimeout(handle): no effect on a timer that already fired
ClearTimeout(pending, handle) == {t \in pending : t.id # handle}

\* ------------------------------------------------------------------------
\* websocket.ts:341-357  scheduleReconnect()
\* ------------------------------------------------------------------------
CanSchedule ==
  /\ reconnectAttempts < MaxAttempts
  /\ FreshIds(PendingIds(reconnectPending)) # {}

\* scheduleReconnect() that arms a timer without clearing the pending one
scheduleReconnect_NoClear ==
  LET delay == ReconnectDelay(reconnectAttempts)
      id == FreshId(PendingIds(reconnectPending))
  IN /\ reconnectAttempts' = reconnectAttempts + 1
     /\ reconnectPending' = reconnectPending \cup {[id |-> id, delay |-> delay]}
     /\ reconnectTimer' = id
     /\ lastDelay' = delay

scheduleReconnect ==
  LET cleared == IF reconnectTimer # 0
                 THEN ClearTimeout(reconnectPending, reconnectTimer)
                 ELSE reconnectPending
      delay == ReconnectDelay(reconnectAttempts)
      id == FreshId(PendingIds(cleared))
  IN /\ reconnectAttempts' = reconnectAttempts + 1
     /\ reconnectPending' = cleared \cup {[id |-> id, delay |-> delay]}
     /\ reconnectTimer' = id
     /\ lastDelay' = delay

\* ------------------------------------------------------------------------
\* websocket.ts:29-126  connect()
\* ------------------------------------------------------------------------
NewSessions == {s \in Sessions : sessState[s] = "none"}
NewSession == CHOOSE s \in NewSessions : \A r \in NewSessions : s <= r

\* connect() guarded on isConnected only
connectGuard_ConnectedOnly == ~isConnected

\* connect() guarded on isConnecting only
connectGuard_ConnectingOnly == ~isConnecting

\* websocket.ts:31-34  the guard of connect()
connectGuard == ~(isConnected \/ isConnecting)

\* websocket.ts:35-118  connect() past its guard.  Stomp.over either throws
\* (lines 52-57) or returns a fresh client whose connect is armed 100 ms
\* later (lines 70-105).
connectBody ==
  \/ /\ isConnecting' = FALSE
     /\ emitted' = <<Event("connect_error",
                Value("string", <<"Failed to create SockJS connection">>))>>
     /\ needRetry' = TRUE
     /\ UNCHANGED <<stompClient, sessState, timeouts>>
  \/ /\ NewSessions # {}
     /\ Len(timeouts) < MaxTimeouts
     /\ isConnecting' = TRUE
     /\ stompClient' = NewSession
     /\ sessState' = [sessState EXCEPT ![NewSession] = "created"]
     /\ timeouts' = Append(timeouts, [kind |-> "connect", by |-> 0])
     /\ emitted' = <<>>
     /\ UNCHANGED needRetry

\* websocket.ts:29-126  connect()
connect ==
  /\ lastOp' = Op("connect", 0, NoError)
  /\ quiet' = FALSE
  /\ sent' = <<>>
  /\ IF connectGuard
     THEN connectBody
     ELSE /\ emitted' = <<>>
          /\ UNCHANGED <<stompClient, isConnecting, sessState, timeouts,
                         needRetry>>
  /\ UNCHANGED <<isConnected, reconnectAttempts, reconnectTimer, pingTimer,
                 sessActive, subs, reconnectPending, pingPending,
                 lastDelay>>

\* unnamed/part_007:69-71  connect() called through the context
Connect ==
  /\ connect
  /\ UNCHANGED uiVars
  /\ Deliver

\* websocket.ts:16-21  the window 'online' listener
Online ==
  /\ lastOp' = Op("online", 0, NoError)
  /\ UNCHANGED uiVars
  /\ quiet' = FALSE
  /\ sent' = <<>>
  /\ IF ~isConnected /\ ~isConnecting /\ connectGuard
     THEN connectBody
     ELSE /\ emitted' = <<>>
          /\ UNCHANGED <<stompClient, isConnecting, sessState, timeouts,
                         needRetry>>
  /\ UNCHANGED <<isConnected, reconnectAttempts, reconnectTimer, pingTimer,
                 sessActive, subs, reconnectPending, pingPending,
                 lastDelay>>
  /\ Deliver

\* websocket.ts:351-356  the reconnect timeout fires
ReconnectFire ==
  \E t \in reconnectPending :
    /\ reconnectPending' = reconnectPending \ {t}
    /\ lastOp' = Op("reconnectFire", 0, NoError)
    /\ UNCHANGED uiVars
    /\ sent' = <<>>
    /\ IF ~isConnected /\ ~isConnecting /\ connectGuard
       THEN connectBody
       ELSE /\ emitted' = <<>>
            /\ UNCHANGED <<stompClient, isConnecting, sessState, timeouts,
                           needRetry>>
    /\ UNCHANGED <<isConnected, reconnectAttempts, reconnectTimer, pingTimer,
                   sessActive, subs, pingPending,
                   quiet, lastDelay>>
  /\ Deliver

\* ------------------------------------------------------------------------
\* websocket.ts:261-282  startPing() / stopPing()
\* ------------------------------------------------------------------------
startPing ==
  IF pingTimer # 0
  THEN UNCHANGED <<pingTimer, pingPending>>
  ELSE /\ pingTimer' = FreshId(pingPending)
       /\ pingPending' = pingPending \cup {FreshId(pingPending)}

\* stopPing() that forgets the handle without clearing the interval
stopPing_KeepInterval ==
  /\ pingTimer' = 0
  /\ UNCHANGED pingPending

stopPing ==
  IF pingTimer # 0
  THEN /\ pingPending' = pingPending \ {pingTimer}
       /\ pingTimer' = 0
  ELSE UNCHANGED <<pingTimer, pingPending>>

\* ------------------------------------------------------------------------
\* websocket.ts:70-105  the 100 ms step of connect(): stompClient.connect on
\* the client the field refers to when the timeout fires
\* ------------------------------------------------------------------------
Activate(s, rearm) ==
  CASE sessState[s] \in {"created", "closed"} ->
         /\ sessState' = [sessState EXCEPT ![s] = "opening"]
         /\ sessActive' = [sessActive EXCEPT ![s] = TRUE]
    [] sessState[s] \in {"opening", "open", "errored"}
         /\ ~sessActive[s] /\ rearm ->
         \* a client that is still closing after disconnect(): the call
         \* either re-activates it or throws in the timer callback
         /\ sessActive' = [sessActive EXCEPT ![s] = TRUE]
         /\ UNCHANGED sessState
    [] OTHER -> UNCHANGED <<sessState, sessActive>>

ConnectStep ==
  /\ timeouts # <<>>
  /\ Head(timeouts).kind = "connect"
  /\ timeouts' = Tail(timeouts)
  /\ \E rearm \in BOOLEAN : Activate(stompClient, rearm)
  /\ lastOp' = Op("connectStep", 0, NoError)
  /\ UNCHANGED uiVars
  /\ emitted' = <<>>
  /\ sent' = <<>>
  /\ UNCHANGED <<svcVars, subs, reconnectPending, pingPending, histVars>>
  /\ Deliver

\* the success callback without the reset of the attempt counter
OnConnect_NoReset(s) ==
  /\ sessState[s] = "opening"
  /\ sessActive[s]
  /\ Len(timeouts) < MaxTimeouts
  /\ sessState' = [sessState EXCEPT ![s] = "open"]
  /\ isConnected' = TRUE
  /\ isConnecting' = FALSE
  /\ UNCHANGED reconnectAttempts
  /\ IF reconnectTimer # 0
     THEN /\ reconnectPending' = ClearTimeout(reconnectPending, reconnectTimer)
          /\ reconnectTimer' = 0
     ELSE UNCHANGED <<reconnectPending, reconnectTimer>>
  /\ emitted' = <<Event("connect", Value("frame", <<>>))>>
  /\ timeouts' = Append(timeouts, [kind |-> "subscribe", by |-> s])
  /\ startPing
  /\ lastOp' = Op("onConnect", s, NoError)
  /\ UNCHANGED uiVars
  /\ sent' = <<>>
  /\ needRetry' = FALSE
  /\ lastDelay' = 0
  /\ UNCHANGED <<stompClient, sessActive, subs, quiet>>
  /\ Deliver

\* websocket.ts:73-91  the success callback of session s
OnConnect(s) ==
  /\ sessState[s] = "opening"
  /\ sessActive[s]
  /\ Len(timeouts) < MaxTimeouts
  /\ sessState' = [sessState EXCEPT ![s] = "open"]
  /\ isConnected' = TRUE
  /\ isConnecting' = FALSE
  /\ reconnectAttempts' = 0
  /\ IF reconnectTimer # 0
     THEN /\ reconnectPending' = ClearTimeout(reconnectPending, reconnectTimer)
          /\ reconnectTimer' = 0
     ELSE UNCHANGED <<reconnectPending, reconnectTimer>>
  /\ emitted' = <<Event("connect", Value("frame", <<>>))>>
  /\ timeouts' = Append(timeouts, [kind |-> "subscribe", by |-> s])
  /\ startPing
  /\ lastOp' = Op("onConnect", s, NoError)
  /\ UNCHANGED uiVars
  /\ sent' = <<>>
  /\ needRetry' = FALSE
  /\ lastDelay' = 0
  /\ UNCHANGED <<stompClient, sessActive, subs, quiet>>
  /\ Deliver

\* websocket.ts:92-103  the failure callback of session s
OnStompError(s, e) ==
  /\ sessState[s] \in {"opening", "open"}
  /\ CanSchedule
  /\ sessState' = [sessState EXCEPT ![s] = "errored"]
  /\ isConnected' = FALSE
  /\ isConnecting' = FALSE
  /\ emitted' = <<Event("connect_error", Value("string", ErrorToString(e)))>>
  /\ scheduleReconnect
  /\ lastOp' = Op("onStompError", 0, e)
  /\ UNCHANGED uiVars
  /\ sent' = <<>>
  /\ needRetry' = TRUE
  /\ UNCHANGED <<stompClient, pingTimer, sessActive, subs, timeouts,
                 pingPending, quiet>>
  /\ Deliver

\* the close callback reporting the close as a connect_error
OnWebSocketClose_EmitsError(s) ==
  /\ sessState[s] \in {"opening", "open", "errored"}
  /\ CanSchedule
  /\ sessState' = [sessState EXCEPT ![s] = "closed"]
  /\ subs' = [subs EXCEPT ![s] = 0]
  /\ isConnected' = FALSE
  /\ isConnecting' = FALSE
  /\ stopPing
  /\ scheduleReconnect
  /\ lastOp' = Op("onWebSocketClose", 0, NoError)
  /\ UNCHANGED uiVars
  /\ emitted' = <<Event("connect_error", Value("string", <<"closed">>))>>
  /\ sent' = <<>>
  /\ needRetry' = TRUE
  /\ UNCHANGED <<stompClient, sessActive, timeouts, quiet>>
  /\ Deliver

\* websocket.ts:112-118  the close callback of session s
OnWebSocketClose(s) ==
  /\ sessState[s] \in {"opening", "open", "errored"}
  /\ CanSchedule
  /\ sessState' = [sessState EXCEPT ![s] = "closed"]
  /\ subs' = [subs EXCEPT ![s] = 0]
  /\ isConnected' = FALSE
  /\ isConnecting' = FALSE
  /\ stopPing
  /\ scheduleReconnect
  /\ lastOp' = Op("onWebSocketClose", 0, NoError)
  /\ UNCHANGED uiVars
  /\ emitted' = <<>>
  /\ sent' = <<>>
  /\ needRetry' = TRUE
  /\ UNCHANGED <<stompClient, sessActive, timeouts, quiet>>
  /\ Deliver

\* websocket.ts:65  reconnectDelay = 5000: a client that is active re-opens
\* its transport by itself after a close
LibraryReconnect(s) ==
  /\ sessState[s] = "closed"
  /\ sessActive[s]
  /\ sessState' = [sessState EXCEPT ![s] = "opening"]
  /\ lastOp' = Op("libraryReconnect", 0, NoError)
  /\ UNCHANGED uiVars
  /\ emitted' = <<>>
  /\ sent' = <<>>
  /\ UNCHANGED <<svcVars, sessActive, subs, timerVars, histVars>>
  /\ Deliver

\* ------------------------------------------------------------------------
\* websocket.ts:242-258  disconnect()
\* ------------------------------------------------------------------------
Disconnect ==
  /\ IF stompClient # 0
     THEN /\ sessActive' = [sessActive EXCEPT ![stompClient] = FALSE]
          /\ isConnected' = FALSE
          /\ isConnecting' = FALSE
          /\ stopPing
          /\ IF reconnectTimer # 0
             THEN /\ reconnectPending' =
                       ClearTimeout(reconnectPending, reconnectTimer)
                  /\ reconnectTimer' = 0
             ELSE UNCHANGED <<reconnectPending, reconnectTimer>>
     ELSE UNCHANGED <<sessActive, isConnected, isConnecting, pingTimer,
                      pingPending, reconnectPending, reconnectTimer>>
  /\ lastOp' = Op("disconnect", 0, NoError)
  /\ UNCHANGED uiVars
  /\ emitted' = <<>>
  /\ sent' = <<>>
  /\ quiet' = TRUE
  /\ needRetry' = FALSE
  /\ UNCHANGED <<stompClient, reconnectAttempts, sessState, subs, timeouts,
                 lastDelay>>
  /\ Deliver

\* ------------------------------------------------------------------------
\* websocket.ts:134-239  subscribeToTopics() / subscribe()
\* ------------------------------------------------------------------------
\* subscribe() that trusts the session and does not look at isConnected
canSubscribe_SessionOnly ==
  /\ stompClient # 0
  /\ sessState[stompClient] = "open"

\* websocket.ts:211-224  the three guards of subscribe()
canSubscribe ==
  /\ stompClient # 0
  /\ isConnected
  /\ sessState[stompClient] = "open"

\* websocket.ts:85-87  the 100 ms step of the success callback
SubscribeStep ==
  /\ timeouts # <<>>
  /\ Head(timeouts).kind = "subscribe"
  /\ timeouts' = Tail(timeouts)
  /\ IF canSubscribe
     THEN /\ subs[stompClient] < MaxSubs
          /\ subs' = [subs EXCEPT ![stompClient] = @ + 1]
     ELSE UNCHANGED subs
  /\ lastOp' = Op("subscribeStep", 0, NoError)
  /\ UNCHANGED uiVars
  /\ emitted' = <<>>
  /\ sent' = <<>>
  /\ UNCHANGED <<svcVars, sessState, sessActive, reconnectPending,
                 pingPending, histVars>>
  /\ Deliver

\* what the handlers can emit for one frame, over all topics and bodies
FrameOutcomes == {TopicEvents(topic, b) : topic \in Topics, b \in Bodies}

\* websocket.ts:141-201  a frame arrives on session s and the handler of
\* its topic emits `events`; the handler of every subscription of s to the
\* topic runs
Frame(s, events) ==
  /\ sessState[s] = "open"
  /\ subs[s] > 0
  /\ emitted' = IF events = <<>> THEN <<>>
                ELSE [i \in 1..subs[s] |-> events[1]]
  /\ lastOp' = Op("frame", s, NoError)
  /\ UNCHANGED uiVars
  /\ sent' = <<>>
  /\ UNCHANGED <<svcVars, libVars, timerVars, histVars>>
  /\ Deliver

\* ------------------------------------------------------------------------
\* websocket.ts:285-296  send()
\* ------------------------------------------------------------------------
\* send() that hands the frame to the client whatever isConnected says
Transmit_Unguarded(destination) ==
  IF stompClient # 0 /\ sessState[stompClient] = "open"
  THEN <<[destination |-> destination, sess |-> stompClient]>>
  ELSE <<>>

\* the frames send() hands to the transport: none when the service is not
\* connected, none when stompClient.send throws (session not connected)
Transmit(destination) ==
  IF stompClient # 0 /\ isConnected /\ sessState[stompClient] = "open"
  THEN <<[destination |-> destination, sess |-> stompClient]>>
  ELSE <<>>

\* websocket.ts:263-271  one tick of a running ping interval
PingTick ==
  \E i \in pingPending :
    /\ sent' = IF isConnected THEN Transmit("/app/ping") ELSE <<>>
    /\ lastOp' = Op("pingTick", 0, NoError)
    /\ UNCHANGED uiVars
    /\ emitted' = <<>>
    /\ UNCHANGED <<svcVars, libVars, timerVars, histVars>>
  /\ Deliver

\* websocket.ts:285-296  send(destination, message) called by the UI
Send ==
  /\ sent' = Transmit("/app/order-item-marks")
  /\ lastOp' = Op("send", 0, NoError)
  /\ UNCHANGED uiVars
  /\ emitted' = <<>>
  /\ UNCHANGED <<svcVars, libVars, timerVars, histVars>>
  /\ Deliver

\* ------------------------------------------------------------------------
\* The listener table driven by its callers: on() and off() called by the
\* UI, emitEvent() called by the service
\* ------------------------------------------------------------------------
IdsOf(list) == {list[i].id : i \in 1..Len(list)}

On(event, does) ==
  /\ nextId <= MaxCallbacks
  /\ eventListeners' = on(eventListeners, event, Callback(nextId, does))
  /\ nextId' = nextId + 1
  /\ busOp' = [name |-> "on", event |-> event]
  /\ calls' = <<>>
  /\ thrown' = FALSE
  /\ UNCHANGED <<removed, wsVars, frameVars, markVars, appVars, provVars>>

Off(event) ==
  /\ eventListeners' = off(eventListeners, event)
  /\ removed' = removed \cup IdsOf(eventListeners[event])
  /\ busOp' = [name |-> "off", event |-> event]
  /\ calls' = <<>>
  /\ thrown' = FALSE
  /\ UNCHANGED <<nextId, wsVars, frameVars, markVars, appVars, provVars>>

Emit(event) ==
  LET e == emitEvent(eventListeners, event, nextId)
  IN /\ nextId + Registers(eventListeners, event) <= MaxCallbacks + 1
     /\ eventListeners' = e.tbl
     /\ calls' = e.calls
     /\ thrown' = e.thrown
     /\ nextId' = e.next
     /\ removed' = removed \cup
          ((IdsOf(eventListeners[event]) \cup (nextId..(e.next - 1)))
             \ IdsOf(e.tbl[event]))
     /\ busOp' = [name |-> "emit", event |-> event]
     /\ UNCHANGED <<wsVars, frameVars, markVars, appVars, provVars>>

NextBus ==
  \/ \E event \in BusEvents, does \in Behaviours : On(event, does)
  \/ \E event \in BusEvents : Off(event)
  \/ \E event \in BusEvents : Emit(event)

SpecBus == Init /\ [][NextBus]_vars

\* ------------------------------------------------------------------------
\* websocket.ts:141-201  the topic handlers driven by the frames the
\* session delivers, one at a time in arrival order
\* ------------------------------------------------------------------------
HandleFrame(f) ==
  /\ Len(handled) < MaxFrames
  /\ handled' = Append(handled, f)
  /\ log' = log \o TopicEvents(f.topic, f.body)
  /\ UNCHANGED <<wsVars, busVars, markVars, appVars, provVars>>

NextFrames == \E f \in Frames : HandleFrame(f)

SpecFrames == Init /\ [][NextFrames]_vars

\* ------------------------------------------------------------------------
\* OrdersPage.tsx  the marks of two clients of one server
\* ------------------------------------------------------------------------
\* OrdersPage.tsx:962-1005  handleToggleMark(orderId, itemId) on client c
ToggleMark(c, orderId, itemId) ==
  LET evt == [orderId |-> orderId, itemId |-> itemId,
              marked |-> willMark(markedItems[c], orderId, itemId)]
      newMap == handleToggleMark(markedItems[c], orderId, itemId)
  IN /\ markedItems' = [markedItems EXCEPT ![c] = newMap]
     /\ localStorage' = [localStorage EXCEPT ![c] = Serialize(newMap)]
     /\ outbox' = sendIntent(linked[c], evt)
     /\ pageOp' = [name |-> "toggle", client |-> c, evt |-> evt]
     /\ UNCHANGED <<linked, synced, wsVars, busVars, frameVars, appVars,
                    provVars>>

\* OrdersPage.tsx:183-214  the server publishes evt on
\* /topic/order-item-marks: handleMarkEvt runs on every client whose
\* service is connected
Broadcast(evt) ==
  /\ \E c \in Clients : linked[c]
  /\ markedItems' = [c \in Clients |->
        IF linked[c] THEN handleMarkEvt(markedItems[c], evt)
                     ELSE markedItems[c]]
  /\ localStorage' = [c \in Clients |->
        IF linked[c] THEN Serialize(handleMarkEvt(markedItems[c], evt))
                     ELSE localStorage[c]]
  /\ synced' = (synced /\ \A c \in Clients : linked[c])
  /\ outbox' = <<>>
  /\ pageOp' = [name |-> "markEvt", client |-> 0, evt |-> evt]
  /\ UNCHANGED <<linked, wsVars, busVars, frameVars, appVars, provVars>>

\* the service of client c connects (websocket.ts:73-91) or loses its
\* connection (websocket.ts:112-118, 242-258)
Link(c) ==
  /\ linked' = [linked EXCEPT ![c] = ~linked[c]]
  /\ outbox' = <<>>
  /\ pageOp' = [name |-> "link", client |-> c, evt |-> NoEvt]
  /\ UNCHANGED <<markedItems, localStorage, synced, wsVars, busVars,
                 frameVars, appVars, provVars>>

NextMarks ==
  \/ \E c \in Clients, o \in Orders, i \in Items : ToggleMark(c, o, i)
  \/ \E evt \in MarkEvents : Broadcast(evt)
  \/ \E c \in Clients : Link(c)

SpecMarks == Init /\ [][NextMarks]_vars

\* ------------------------------------------------------------------------
\* OrdersPage.tsx  one OrdersPage: its order list, its deleted ids, its
\* marks, its fetches.  The state updates of a handler are committed
\* together and the effects whose dependencies changed run after them.
\* ------------------------------------------------------------------------
\* what the server may answer to GET /api/orders: orders of distinct ids
Responses ==
  { <<>> } \cup
  { <<Order(id, st, "fetch")>> : id \in Orders, st \in Statuses } \cup
  { <<Order("orderA", sa, "fetch"), Order("orderB", sb, "fetch")>> :
      sa \in Statuses, sb \in Statuses }

\* window.latestOrderCreated when the page mounts: nothing, the order this
\* client just created, or one flagged deleted
NoLatest == [id |-> "", deleted |-> FALSE]
Latest == {NoLatest} \cup [id : Orders, deleted : BOOLEAN]

\* payment_update payloads
Payments == [paymentStatus : {"PAID"}, orderId : Orders \cup {""}] \cup
            [paymentStatus : {"PENDING", "FAILED"}, orderId : {""}]

\* the commit of the state p a handler leaves: the effect of
\* OrdersPage.tsx:636-669 runs when setOrders gave a new array
Render(p, saved, ordersChanged) ==
  LET pr == IF ordersChanged
            THEN pruneMarkedItems(p.orders, p.markedItems, saved)
            ELSE [markedItems |-> p.markedItems, saved |-> saved]
  IN [page |-> [p EXCEPT !.markedItems = pr.markedItems],
      saved |-> pr.saved]

\* the listener effect (dependencies on, off, fetchOrders) runs again when
\* deletedOrderIds, on which fetchOrders depends, was set
Rerun(p, deletedSet) == IF deletedSet THEN Closure(p) ELSE listenerEffect

\* a call of fetchOrders of a render whose deletedOrderIds is `deleted`
Fetch(deleted) == [deletedOrderIds |-> deleted, live |-> TRUE]

\* OrdersPage.tsx:312-337  the page mounts: markedItems is read from
\* localStorage, the order just created is handed to the list, fetchOrders
\* of the first render is called
Mount(latest) ==
  LET first == FirstRender(loadMarkedItems(store.markedItems))
      handOff == latest # NoLatest /\ ~latest.deleted
      p == IF handOff
           THEN [first EXCEPT
                   !.orders = <<Order(latest.id, "PENDING", "created")>>]
           ELSE first
      r == Render(p, store.markedItems, handOff)
  IN /\ ~page.mounted
     /\ Len(fetches) < MaxFetches
     /\ page' = r.page
     /\ store' = [store EXCEPT !.markedItems = r.saved]
     /\ listenerEffect' = Closure(first)
     /\ fetches' = Append(fetches, Fetch(first.deletedOrderIds))
     /\ pgOp' = PgOp("mount", latest.id)
     /\ UNCHANGED <<now, flagTimers>>
     /\ UNCHANGED <<wsVars, busVars, frameVars, markVars, provVars>>

\* the page unmounts: its state is gone, its pending fetches and timeouts
\* set the state of a component that no longer exists
Unmount ==
  /\ page.mounted
  /\ page' = NoPage
  /\ listenerEffect' = Closure(NoPage)
  /\ fetches' = [i \in 1..Len(fetches) |-> [fetches[i] EXCEPT !.live = FALSE]]
  /\ flagTimers' = {}
  /\ pgOp' = PgOp("unmount", "")
  /\ UNCHANGED <<store, now>>
  /\ UNCHANGED <<wsVars, busVars, frameVars, markVars, provVars>>

\* OrdersPage.tsx:247-309  the response of fetch i arrives: ok with the
\* list resp
FetchDone(i, resp) ==
  LET f == fetches[i]
      flt == filterDeletedOrders(resp, f.deletedOrderIds,
                                 store.missedOrderDeletions)
      p == [page EXCEPT
              !.orders = mergeOrders(flt.orders, @),
              !.deletedOrderIds = IF flt.setDeleted
                                  THEN flt.deletedOrderIds ELSE @,
              !.lastFetchTime = now,
              !.hasRecentWebSocketData = TRUE]
      r == Render(p, store.markedItems, TRUE)
  IN /\ i \in 1..Len(fetches)
     /\ fetches' = SubSeq(fetches, 1, i - 1) \o
                   SubSeq(fetches, i + 1, Len(fetches))
     /\ IF f.live
        THEN /\ page' = r.page
             /\ store' = [markedItems |-> r.saved,
                          missedOrderDeletions |-> flt.missed]
             /\ listenerEffect' = Rerun(r.page, flt.setDeleted)
             /\ flagTimers' = flagTimers \cup {now + FreshFor}
             /\ pgOp' = [PgOp("fetchDone", "") EXCEPT !.data = flt.orders]
        ELSE /\ store' = [store EXCEPT !.missedOrderDeletions = flt.missed]
             /\ pgOp' = PgOp("fetchDropped", "")
             /\ UNCHANGED <<page, listenerEffect, flagTimers>>
     /\ UNCHANGED now
     /\ UNCHANGED <<wsVars, busVars, frameVars, markVars, provVars>>

\* OrdersPage.tsx:258, 300-303  the response is not ok, or fetch rejects
FetchFail(i) ==
  /\ i \in 1..Len(fetches)
  /\ fetches' = SubSeq(fetches, 1, i - 1) \o
                SubSeq(fetches, i + 1, Len(fetches))
  /\ pgOp' = PgOp("fetchFail", "")
  /\ UNCHANGED <<page, listenerEffect, store, now, flagTimers>>
  /\ UNCHANGED <<wsVars, busVars, frameVars, markVars, provVars>>

\* OrdersPage.tsx:400-476  the service emits order_update: handleOrderUpdate
\* runs when the page is mounted, nothing is registered otherwise
OrderUpdate(updatedOrder) ==
  LET done == becameDone(listenerEffect.orders, updatedOrder)
      known == Exists(page.orders, updatedOrder.id)
      p == [page EXCEPT
              !.markedItems = IF done THEN MapDelete(@, updatedOrder.id)
                                      ELSE @,
              !.orders = upsertOrder(@, updatedOrder),
              !.lastFetchTime = IF known THEN now ELSE @,
              !.hasRecentWebSocketData = IF known THEN TRUE ELSE @]
      saved == IF done THEN Serialize(p.markedItems) ELSE store.markedItems
      r == Render(p, saved, TRUE)
  IN /\ pgOp' = PgOp("order_update", updatedOrder.id)
     /\ IF page.mounted
        THEN /\ page' = r.page
             /\ store' = [store EXCEPT !.markedItems = r.saved]
             /\ flagTimers' = IF known THEN flagTimers \cup {now + FreshFor}
                                       ELSE flagTimers
        ELSE UNCHANGED <<page, store, flagTimers>>
     /\ UNCHANGED <<listenerEffect, fetches, now>>
     /\ UNCHANGED <<wsVars, busVars, frameVars, markVars, provVars>>

\* OrdersPage.tsx:503-528  the service emits order_deleted with orderId
\* ("" stands for a payload that is no non-empty string)
OrderDeleted(orderId) ==
  LET p == [page EXCEPT
              !.orders = Without(@, orderId),
              !.deletedOrderIds = Append(@, orderId),
              !.markedItems = MapDelete(@, orderId)]
      r == Render(p, store.markedItems, TRUE)
  IN /\ pgOp' = PgOp("order_deleted", orderId)
     /\ IF page.mounted /\ orderId # ""
        THEN /\ Len(page.deletedOrderIds) < MaxDeleted
             /\ page' = r.page
             /\ store' = [store EXCEPT !.markedItems = r.saved]
             /\ listenerEffect' = Rerun(r.page, TRUE)
        ELSE UNCHANGED <<page, store, listenerEffect>>
     /\ UNCHANGED <<fetches, now, flagTimers>>
     /\ UNCHANGED <<wsVars, busVars, frameVars, markVars, provVars>>

\* OrdersPage.tsx:532-594  the service emits payment_update
PaymentUpdate(payment) ==
  LET orderId == payment.orderId
      newMap == MapDelete(page.markedItems, orderId)
      p == [page EXCEPT
              !.orders = Without(@, orderId),
              !.deletedOrderIds = Append(@, orderId),
              !.markedItems = newMap]
      r == Render(p, Serialize(newMap), TRUE)
  IN /\ pgOp' = PgOp("payment_update", payment.orderId)
     /\ CASE page.mounted /\ payment.paymentStatus = "PAID" /\ orderId # "" ->
               /\ Len(page.deletedOrderIds) < MaxDeleted
               /\ page' = r.page
               /\ store' = [store EXCEPT !.markedItems = r.saved]
               /\ listenerEffect' = Rerun(r.page, TRUE)
               /\ UNCHANGED fetches
          [] page.mounted /\ payment.paymentStatus = "PENDING" ->
               /\ Len(fetches) < MaxFetches
               /\ fetches' = Append(fetches,
                                    Fetch(listenerEffect.deletedOrderIds))
               /\ UNCHANGED <<page, store, listenerEffect>>
          [] OTHER -> UNCHANGED <<page, store, listenerEffect, fetches>>
     /\ UNCHANGED <<now, flagTimers>>
     /\ UNCHANGED <<wsVars, busVars, frameVars, markVars, provVars>>

\* OrdersPage.tsx:183-214  the service emits order_item_marked
MarkEvt(evt) ==
  LET next == handleMarkEvt(page.markedItems, evt)
  IN /\ pgOp' = PgOp("order_item_marked", evt.orderId)
     /\ IF page.mounted
        THEN /\ page' = [page EXCEPT !.markedItems = next]
             /\ store' = [store EXCEPT !.markedItems = Serialize(next)]
        ELSE UNCHANGED <<page, store>>
     /\ UNCHANGED <<listenerEffect, fetches, now, flagTimers>>
     /\ UNCHANGED <<wsVars, busVars, frameVars, markVars, provVars>>

\* OrdersPage.tsx:962-1005  the user toggles the mark of an item of an
\* order of the list; the intent is not transmitted (sendIntent)
Toggle(orderId, itemId) ==
  LET newMap == handleToggleMark(page.markedItems, orderId, itemId)
  IN /\ page.mounted
     /\ Exists(page.orders, orderId)
     /\ page' = [page EXCEPT !.markedItems = newMap]
     /\ store' = [store EXCEPT !.markedItems = Serialize(newMap)]
     /\ pgOp' = PgOp("toggle", orderId)
     /\ UNCHANGED <<listenerEffect, fetches, now, flagTimers>>
     /\ UNCHANGED <<wsVars, busVars, frameVars, markVars, provVars>>

\* OrdersPage.tsx:339-377  the document becomes visible:
\* handleVisibilityChange, created by the mount effect (no dependencies),
\* decides on the values of the first render and calls its fetchOrders
Visible ==
  LET first == FirstRender(<<>>)
  IN /\ page.mounted
     /\ pgOp' = PgOp("visible", "")
     /\ IF refreshNeeded(first.hasRecentWebSocketData, first.lastFetchTime,
                         first.orders, now)
        THEN /\ Len(fetches) < MaxFetches
             /\ fetches' = Append(fetches, Fetch(first.deletedOrderIds))
        ELSE UNCHANGED fetches
     /\ UNCHANGED <<page, listenerEffect, store, now, flagTimers>>
     /\ UNCHANGED <<wsVars, busVars, frameVars, markVars, provVars>>

\* a minute passes; a timeout fires when it is due
Tick ==
  /\ now < MaxClock
  /\ \A t \in flagTimers : t > now
  /\ now' = now + 1
  /\ pgOp' = PgOp("tick", "")
  /\ UNCHANGED <<page, listenerEffect, fetches, store, flagTimers>>
  /\ UNCHANGED <<wsVars, busVars, frameVars, markVars, provVars>>

\* OrdersPage.tsx:292-295, 443-446, 453-456  a 5 minute timeout fires
FlagTimer(t) ==
  /\ t \in flagTimers
  /\ t <= now
  /\ flagTimers' = flagTimers \ {t}
  /\ page' = [page EXCEPT !.hasRecentWebSocketData = FALSE]
  /\ pgOp' = PgOp("flagTimer", "")
  /\ UNCHANGED <<listenerEffect, fetches, store, now>>
  /\ UNCHANGED <<wsVars, busVars, frameVars, markVars, provVars>>

PageItems == {"item1"}
PageMarkEvents == {evt \in MarkEvents : evt.itemId \in PageItems}
OrderEvents == {Order(id, st, "event") : id \in Orders, st \in Statuses}

NextPage ==
  \/ \E latest \in Latest : Mount(latest)
  \/ Unmount
  \/ \E i \in 1..MaxFetches, resp \in Responses : FetchDone(i, resp)
  \/ \E i \in 1..MaxFetches : FetchFail(i)
  \/ \E o \in OrderEvents : OrderUpdate(o)
  \/ \E id \in Orders \cup {""} : OrderDeleted(id)
  \/ \E payment \in Payments : PaymentUpdate(payment)
  \/ \E evt \in PageMarkEvents : MarkEvt(evt)
  \/ \E o \in Orders, it \in PageItems : Toggle(o, it)
  \/ Visible

SpecPage == Init /\ [][NextPage]_vars

\* the order list alone: no item is marked
NextOrders ==
  \/ \E latest \in Latest : Mount(latest)
  \/ Unmount
  \/ \E i \in 1..MaxFetches, resp \in Responses : FetchDone(i, resp)
  \/ \E i \in 1..MaxFetches : FetchFail(i)
  \/ \E o \in OrderEvents : OrderUpdate(o)
  \/ \E id \in Orders \cup {""} : OrderDeleted(id)
  \/ \E payment \in Payments : PaymentUpdate(payment)
  \/ Visible

SpecOrders == Init /\ [][NextOrders]_vars

\* the page and the clock: no marks, no deletions
NextStale ==
  \/ Mount(NoLatest)
  \/ \E i \in 1..MaxFetches, resp \in Responses : FetchDone(i, resp)
  \/ \E o \in OrderEvents : OrderUpdate(o)
  \/ Visible
  \/ Tick
  \/ \E t \in 0..(MaxClock + FreshFor) : FlagTimer(t)

SpecStale == Init /\ [][NextStale]_vars

\* ------------------------------------------------------------------------
\* unnamed/part_007 and OrdersPage.tsx:183-214, 390-633  the provider and
\* the page register callbacks in the listener table of the service
\* ------------------------------------------------------------------------
RECURSIVE onEach(_, _, _)
\* on(event, callback) for each event of `events`, in order, the callbacks
\* getting the ids id, id + 1, ...
onEach(tbl, events, id) ==
  IF events = <<>>
  THEN tbl
  ELSE onEach(on(tbl, Head(events), Callback(id, "return")),
              Tail(events), id + 1)

RECURSIVE offEach(_, _)
\* off(event) for each event of `events`
offEach(tbl, events) ==
  IF events = <<>> THEN tbl ELSE offEach(off(tbl, Head(events)), Tail(events))

\* unnamed/part_007:54-56 and 63-65
ProviderEvents == <<"connect", "disconnect", "connect_error">>

\* OrdersPage.tsx:596-621  the events the listener effect registers for
PageEvents == <<"order_update", "order_deleted", "payment_update",
                "test_message", "connect", "disconnect", "connect_error">>

\* OrdersPage.tsx:624-631  the events the cleanup calls off for
PageCleanupEvents == <<"order_update", "order_deleted", "payment_update",
                       "test_message", "connect", "disconnect">>

\* unnamed/part_007:31-67  the effect of the provider: connect(), the three
\* registrations, setIsConnected(getConnected())
ProviderMount ==
  /\ ~provider.mounted
  /\ connect
  /\ eventListeners' = onEach(eventListeners, ProviderEvents, nextId)
  /\ nextId' = nextId + Len(ProviderEvents)
  /\ provider' = [mounted |-> TRUE, isConnected |-> isConnected',
                  handleConnect |-> nextId, handleDisconnect |-> nextId + 1,
                  handleConnectError |-> nextId + 2]
  /\ UNCHANGED <<busOp, calls, thrown, removed, frameVars, markVars, appVars,
                 consumer>>

\* OrdersPage.tsx:390-399  the listener effect calls connect() when the
\* context says not connected; the callbacks in `tbl` hear what it emits
effectConnect(tbl) ==
  IF ~provider.isConnected
  THEN /\ connect
       /\ provider' = [provider EXCEPT !.isConnected =
                         setIsConnected(tbl, 1, emitted', @)]
  ELSE UNCHANGED <<wsVars, provider>>

\* OrdersPage.tsx:183-214, 390-633  the page mounts: the mark effect and
\* the listener effect run
PageMount ==
  /\ ~consumer.active
  /\ consumer.runs < MaxEffects
  /\ effectConnect(on(eventListeners, "order_item_marked",
                      Callback(nextId, "return")))
  /\ eventListeners' =
       onEach(on(eventListeners, "order_item_marked",
                 Callback(nextId, "return")), PageEvents, nextId + 1)
  /\ nextId' = nextId + 1 + Len(PageEvents)
  /\ consumer' = [active |-> TRUE, runs |-> consumer.runs + 1]
  /\ UNCHANGED <<busOp, calls, thrown, removed, frameVars, markVars, appVars>>

\* OrdersPage.tsx:623-633  fetchOrders changed (deletedOrderIds was set):
\* the cleanup of the listener effect, then the effect again
PageRerun ==
  /\ consumer.active
  /\ consumer.runs < MaxEffects
  /\ effectConnect(offEach(eventListeners, PageCleanupEvents))
  /\ eventListeners' =
       onEach(offEach(eventListeners, PageCleanupEvents), PageEvents, nextId)
  /\ nextId' = nextId + Len(PageEvents)
  /\ consumer' = [active |-> TRUE, runs |-> consumer.runs + 1]
  /\ UNCHANGED <<busOp, calls, thrown, removed, frameVars, markVars, appVars>>

\* OrdersPage.tsx:210-212, 623-632  the page unmounts: both cleanups
PageUnmount ==
  /\ consumer.active
  /\ eventListeners' =
       off(offEach(eventListeners, PageCleanupEvents), "order_item_marked")
  /\ consumer' = [consumer EXCEPT !.active = FALSE]
  /\ UNCHANGED <<wsVars, busOp, calls, thrown, nextId, removed, frameVars,
                 markVars, appVars, provider>>

NextProvider ==
  \/ ProviderMount
  \/ PageMount
  \/ PageRerun
  \/ PageUnmount
  \/ ReconnectFire
  \/ ConnectStep
  \/ SubscribeStep
  \/ Disconnect
  \/ \E s \in Sessions : OnConnect(s)
  \/ \E s \in Sessions, e \in Errors : OnStompError(s, e)
  \/ \E s \in Sessions : OnWebSocketClose(s)
  \/ \E s \in Sessions : LibraryReconnect(s)

SpecProvider == Init /\ [][NextProvider]_vars

\* ------------------------------------------------------------------------
\* Derived notions
\* ------------------------------------------------------------------------
\* the STOMP clients created so far
Created == {s \in Sessions : sessState[s] # "none"}
\* the sessions that are open or attempting to open
Live == {s \in Sessions : sessState[s] \in {"opening", "open"} /\ sessActive[s]}
ConnectTriggers == {"connect", "online", "reconnectFire"}

\* ------------------------------------------------------------------------
\* C1: a connection trigger (connect(), the online signal, the reconnect
\* timer firing) that occurs while the service is connecting or connected
\* creates no session and changes no state; no step taken while connecting
\* or connected creates a session, and a step that creates one starts from
\* a state that is neither, creates exactly one and leaves the service
\* connecting.
\* ------------------------------------------------------------------------
C1_IdempotentConnect ==
  [][ /\ (isConnected \/ isConnecting) => Created' = Created
      /\ ((isConnected \/ isConnecting) /\ lastOp'.name \in ConnectTriggers)
           => /\ UNCHANGED <<svcVars, libVars, timeouts, pingPending>>
              /\ reconnectPending' \subseteq reconnectPending
              /\ emitted' = <<>>
      /\ Created' # Created
           => /\ Cardinality(Created' \ Created) = 1
              /\ isConnecting' /\ ~isConnected' ]_vars

\* a trigger arrived while the service was connected
C1_Witness ==
  /\ lastOp.name \in {"connect", "online"}
  /\ isConnected

\* ------------------------------------------------------------------------
\* C2: at most one session is live (open or attempting to open) at a time,
\* and no session is created while a previous one is still open.
\* ------------------------------------------------------------------------
C2_OneLiveSession ==
  [][ /\ Cardinality(Live') <= 1
      /\ Created' # Created => \A s \in Sessions : sessState[s] # "open" ]_vars

\* ------------------------------------------------------------------------
\* C3: after disconnect() and until connect() is called again, no
\* connection attempt is started and the service is never connected or
\* connecting.
\* ------------------------------------------------------------------------
C3_NoReconnectAfterDisconnect ==
  [][ (quiet /\ quiet')
        => /\ ~isConnected' /\ ~isConnecting'
           /\ \A s \in Sessions :
                sessState'[s] = "opening" => sessState[s] = "opening" ]_vars

\* ------------------------------------------------------------------------
\* C4: after a construction failure, a connect-failure callback or a
\* transport close, and as long as disconnect() is not called (and no
\* connection has succeeded since), a reconnect timer is pending or a
\* connection attempt is in progress.
\* ------------------------------------------------------------------------
C4_FailuresRetried ==
  needRetry => (reconnectPending # {} \/ isConnecting)

\* ------------------------------------------------------------------------
\* C5: each scheduled reconnect uses delay min(5000 * 2^attempt, 20000)
\* with the counter value before the schedule, and increments the counter
\* by one; over consecutive failures the delay never decreases and strictly
\* increases until it reaches 20000; after a successful connect the counter
\* is 0 and the next scheduled delay is 5000.
\* ------------------------------------------------------------------------
Schedules == {"onStompError", "onWebSocketClose"}

C5_Backoff ==
  [][ /\ lastOp'.name \in Schedules
        => /\ reconnectAttempts' = reconnectAttempts + 1
           /\ \E t \in reconnectPending' :
                /\ t.id = reconnectTimer'
                /\ t.delay = Min(5000 * 2^reconnectAttempts, 20000)
                /\ lastDelay' = t.delay
           /\ lastDelay # 0
                => /\ lastDelay' >= lastDelay
                   /\ lastDelay < 20000 => lastDelay' > lastDelay
           /\ lastDelay = 0 => lastDelay' = 5000
      /\ lastOp'.name = "onConnect"
        => reconnectAttempts' = 0 /\ lastDelay' = 0
      /\ lastOp'.name \notin Schedules
        => reconnectAttempts' \in {0, reconnectAttempts} ]_vars

\* the delay reached the cap: 5000 * 2^3 = 40000 was cut to 20000
C5_Witness ==
  /\ lastOp.name \in Schedules
  /\ reconnectAttempts = 4
  /\ lastDelay = 20000

\* ------------------------------------------------------------------------
\* C6: at most one reconnect timer is pending, and it is the one the
\* service holds; a schedule leaves exactly the new timer pending, a
\* successful connect, disconnect() and the firing of the timer leave none.
\* ------------------------------------------------------------------------
C6_OneReconnectTimer ==
  /\ Cardinality(reconnectPending) <= 1
  /\ \A t \in reconnectPending : t.id = reconnectTimer
  /\ lastOp.name \in Schedules => Cardinality(reconnectPending) = 1
  /\ lastOp.name \in {"onConnect", "disconnect", "reconnectFire"}
       => reconnectPending = {}

\* a schedule after at least one earlier schedule
C6_Witness ==
  /\ lastOp.name \in Schedules
  /\ reconnectAttempts >= 2
  /\ Cardinality(reconnectPending) = 1

\* ------------------------------------------------------------------------
\* C7: the connect-failure callback clears connected and connecting, emits
\* connect_error with the stringified error and schedules a reconnect; the
\* close callback clears connected and connecting, stops the ping timer and
\* schedules a reconnect without emitting any event; connect_error is
\* emitted by nothing but a connect failure.
\* ------------------------------------------------------------------------
ExpectedErrorText(e) ==
  IF e.kind = "Error" THEN <<"Error", ": ", "refused">>
  ELSE <<"Lost connection">>

C7_ConnectErrorOnlyOnFailure ==
  /\ lastOp.name = "onStompError"
       => /\ ~isConnected /\ ~isConnecting
          /\ Len(emitted) = 1
          /\ emitted[1].name = "connect_error"
          /\ emitted[1].data.type = "string"
          /\ emitted[1].data.text = ExpectedErrorText(lastOp.err)
          /\ reconnectPending # {}
  /\ lastOp.name = "onWebSocketClose"
       => /\ ~isConnected /\ ~isConnecting
          /\ pingTimer = 0 /\ pingPending = {}
          /\ reconnectPending # {}
          /\ emitted = <<>>
  /\ (\E i \in 1..Len(emitted) : emitted[i].name = "connect_error")
       => lastOp.name \in {"onStompError"} \cup ConnectTriggers

\* a session that had connected was closed
C7_Witness ==
  /\ lastOp.name = "onWebSocketClose"
  /\ reconnectAttempts >= 1
  /\ reconnectPending # {}
  /\ emitted = <<>>

\* ------------------------------------------------------------------------
\* C8: the success callback of a session leaves the service connected and
\* not connecting, the attempt counter 0, no reconnect timer pending, the
\* connect event emitted, the ping timer running and the subscribe step
\* pending, the session having no subscription yet; a session becomes open
\* by its success callback only, is subscribed only while open, and a
\* domain event is emitted only by a subscription of an open session: the
\* connect event of a session precedes its domain events.
\* ------------------------------------------------------------------------
DomainEvents == {"order_update", "order_deleted", "payment_update",
                 "order_item_marked"}

C8_SuccessCallback ==
  [][ /\ lastOp'.name = "onConnect"
        => /\ isConnected' /\ ~isConnecting'
           /\ reconnectAttempts' = 0
           /\ reconnectPending' = {}
           /\ Len(emitted') = 1 /\ emitted'[1].name = "connect"
           /\ pingTimer' # 0 /\ pingPending' = {pingTimer'}
           /\ subs'[lastOp'.sess] = 0
           /\ timeouts' # <<>>
           /\ timeouts'[Len(timeouts')] =
                [kind |-> "subscribe", by |-> lastOp'.sess]
      /\ \A s \in Sessions :
           /\ (sessState'[s] = "open" /\ sessState[s] # "open")
                => lastOp' = Op("onConnect", s, NoError)
           /\ subs'[s] > subs[s] => sessState[s] = "open"
      /\ (\E i \in 1..Len(emitted') : emitted'[i].name \in DomainEvents)
        => /\ lastOp'.name = "frame"
           /\ sessState[lastOp'.sess] = "open"
           /\ subs[lastOp'.sess] > 0 ]_vars

\* a reconnection succeeded
C8_Witness ==
  /\ lastOp.name = "onConnect"
  /\ lastOp.sess = 2
  /\ isConnected

\* ------------------------------------------------------------------------
\* C9: a session that is not open has no subscription; the subscribe step
\* scheduled by the connection of one session never subscribes on another
\* session; a topic handler emits a domain event only on the newest session.
\* ------------------------------------------------------------------------
C9_StaleSubscriptions ==
  [][ /\ \A s \in Sessions :
           /\ sessState'[s] \notin {"open", "errored"} => subs'[s] = 0
           /\ subs'[s] > subs[s] => Head(timeouts).by = s
      /\ (lastOp'.name = "frame" /\ emitted' # <<>>)
           => lastOp'.sess = stompClient' ]_vars

\* ------------------------------------------------------------------------
\* C10: a subscribe step that finds no session, the service not connected
\* or the session not connected creates no subscription and changes no
\* connection state; a subscribe step is armed by the success callback
\* only.
\* ------------------------------------------------------------------------
SubscribeSteps(q) == {i \in 1..Len(q) : q[i].kind = "subscribe"}

C10_SubscribeWhileDisconnected ==
  [][ /\ ( /\ lastOp'.name = "subscribeStep"
           /\ \/ stompClient = 0
              \/ ~isConnected
              \/ sessState[stompClient] # "open" )
        => /\ UNCHANGED <<svcVars, libVars, reconnectPending, pingPending>>
           /\ emitted' = <<>>
           /\ timeouts' = Tail(timeouts)
      /\ Cardinality(SubscribeSteps(timeouts')) >
           Cardinality(SubscribeSteps(timeouts))
        => lastOp'.name = "onConnect" ]_vars

\* the subscribe step fired after the service lost its connection
C10_Witness ==
  /\ lastOp.name = "subscribeStep"
  /\ ~isConnected
  /\ stompClient # 0

\* ------------------------------------------------------------------------
\* C11: off(event) leaves no callback registered for the event and leaves
\* the callbacks of the other events alone; off on an event without
\* callback changes nothing; an emission that starts after an off invokes
\* no callback the off took away.
\* ------------------------------------------------------------------------
C11_OffRemovesAll ==
  [][ /\ busOp'.name = "off"
        => /\ eventListeners'[busOp'.event] = <<>>
           /\ \A ev \in EventNames \ {busOp'.event} :
                eventListeners'[ev] = eventListeners[ev]
           /\ eventListeners[busOp'.event] = <<>>
                => eventListeners' = eventListeners
           /\ calls' = <<>> /\ ~thrown'
      /\ busOp'.name = "emit"
        => \A i \in 1..Len(calls') : calls'[i] \notin removed ]_vars

\* an emission after an off invoked callbacks registered since
C11_Witness ==
  /\ busOp.name = "emit"
  /\ calls # <<>>
  /\ \E r \in removed : \A i \in 1..Len(calls) : calls[i] > r

\* ------------------------------------------------------------------------
\* C12: an emission invokes every callback registered for the event, in
\* registration order, each exactly once, whether or not one of them
\* throws, and no exception reaches the caller.
\* ------------------------------------------------------------------------
C12_EmitAllInOrder ==
  [][ busOp'.name = "emit"
        => /\ calls' = [i \in 1..Len(eventListeners[busOp'.event]) |->
                          eventListeners[busOp'.event][i].id]
           /\ ~thrown' ]_vars

\* a callback threw and the callbacks registered after it were invoked
C12_Witness ==
  /\ busOp.name = "emit"
  /\ Len(calls) >= 2
  /\ \E i \in 1..(Len(calls) - 1) :
       \E j \in 1..Len(eventListeners[busOp.event]) :
         /\ eventListeners[busOp.event][j].id = calls[i]
         /\ eventListeners[busOp.event][j].does = "throw"

\* ------------------------------------------------------------------------
\* C13: when a callback calls off or on for the event being emitted, every
\* callback registered when the emission began is invoked exactly once in
\* that emission and no callback added during the emission is invoked in
\* it.
\* ------------------------------------------------------------------------
C13_MutationDuringEmit ==
  [][ ( /\ busOp'.name = "emit"
        /\ \E i \in 1..Len(eventListeners[busOp'.event]) :
             eventListeners[busOp'.event][i].does \in {"on", "off"} )
        => /\ \A i \in 1..Len(eventListeners[busOp'.event]) :
                Cardinality({j \in 1..Len(calls') :
                  calls'[j] = eventListeners[busOp'.event][i].id}) = 1
           /\ \A j \in 1..Len(calls') : calls'[j] < nextId ]_vars

\* the last callback invoked had been taken away by an off made during
\* the emission
C13_Witness ==
  /\ busOp.name = "emit"
  /\ Len(calls) >= 2
  /\ calls[Len(calls)] \in removed

\* ------------------------------------------------------------------------
\* C14: for a frame of the order-deletion topic the payload of
\* order_deleted is the body without its first and last character when the
\* body starts and ends with a double quote, and the body itself otherwise;
\* the identifier abc-123 in one pair of double quotes yields abc-123.
\* ------------------------------------------------------------------------
C14_DeletionPayload ==
  [][ ( /\ Len(handled') = Len(handled) + 1
        /\ handled'[Len(handled')].topic = "/topic/orders/deleted" )
        => /\ Len(log') = Len(log) + 1
           /\ SubSeq(log', 1, Len(log)) = log
           /\ log'[Len(log')].name = "order_deleted"
           /\ log'[Len(log')].data.type = "string"
           /\ LET b == handled'[Len(handled')].body
                  payload == log'[Len(log')].data.text
              IN /\ IF b # <<>> /\ b[1] = Quote /\ b[Len(b)] = Quote
                    THEN /\ Len(b) >= 2 => b = <<Quote>> \o payload \o <<Quote>>
                         /\ Len(b) = 1 => payload = <<>>
                    ELSE payload = b
                 /\ b = <<Quote, "abc-123", Quote>>
                      => payload = <<"abc-123">> ]_vars

\* the quoted identifier was delivered bare
C14_Witness ==
  /\ handled # <<>>
  /\ handled[Len(handled)] =
       [topic |-> "/topic/orders/deleted", body |-> <<Quote, "abc-123", Quote>>]
  /\ log # <<>>
  /\ log[Len(log)] = [name |-> "order_deleted",
                      data |-> [type |-> "string", text |-> <<"abc-123">>]]

\* ------------------------------------------------------------------------
\* C15: a frame of the orders, payments, item-marks or pong topic whose
\* body is not JSON emits nothing and changes no connection state; a
\* well-formed frame emits its event after the events of the frames that
\* arrived before it, whatever those frames were.
\* ------------------------------------------------------------------------
WellFormedBodies == { <<Quote, "abc-123", Quote>>, <<"{", "}">> }

EventOfTopic(topic) ==
  CASE topic = "/topic/orders" -> "order_update"
    [] topic = "/topic/payments" -> "payment_update"
    [] topic = "/topic/order-item-marks" -> "order_item_marked"
    [] OTHER -> "none"

C15_ParseFailureDropped ==
  [][ ( /\ Len(handled') = Len(handled) + 1
        /\ handled'[Len(handled')].topic # "/topic/orders/deleted" )
        => LET f == handled'[Len(handled')]
           IN /\ UNCHANGED <<svcVars, libVars, timerVars>>
              /\ (f.body \notin WellFormedBodies \/ f.topic = "/topic/pong")
                   => log' = log
              /\ (f.body \in WellFormedBodies /\ f.topic # "/topic/pong")
                   => /\ Len(log') = Len(log) + 1
                      /\ SubSeq(log', 1, Len(log)) = log
                      /\ log'[Len(log')].name = EventOfTopic(f.topic)
                      /\ log'[Len(log')].data.type \in {"object", "string"} ]_vars

\* a malformed frame was dropped and the next frame of the topic delivered
C15_Witness ==
  /\ Len(handled) = 2
  /\ handled[1] = [topic |-> "/topic/orders", body |-> <<"{">>]
  /\ handled[2] = [topic |-> "/topic/orders", body |-> <<"{", "}">>]
  /\ Len(log) = 1
  /\ log[1].name = "order_update"

\* ------------------------------------------------------------------------
\* C16: send() while not connected transmits nothing and changes no state
\* (connected, connecting, attempt counter, timers, sessions); a connect()
\* that follows starts an attempt; a frame is transmitted only by the call
\* of send() that carries it, so a dropped message is never sent later.
\* ------------------------------------------------------------------------
C16_SendWhileDisconnected ==
  [][ /\ (lastOp'.name = "send" /\ ~isConnected)
        => /\ sent' = <<>>
           /\ emitted' = <<>>
           /\ UNCHANGED <<svcVars, libVars, timerVars>>
      /\ sent' # <<>>
        => /\ lastOp'.name \in {"send", "pingTick"}
           /\ isConnected
           /\ Len(sent') = 1
           /\ sent'[1].destination =
                (IF lastOp'.name = "send" THEN "/app/order-item-marks"
                                          ELSE "/app/ping")
      /\ ( /\ lastOp.name = "send"
           /\ lastOp'.name = "connect"
           /\ ~isConnected /\ ~isConnecting )
        => (isConnecting' \/ emitted' # <<>>) ]_vars

\* send() was called after disconnect(), the session still open
C16_Witness ==
  /\ lastOp.name = "send"
  /\ ~isConnected
  /\ stompClient # 0
  /\ sessState[stompClient] = "open"
  /\ sent = <<>>

\* ------------------------------------------------------------------------
\* C17: at most one ping interval runs and it is the one the service
\* holds; it runs after every success callback and whenever the service is
\* connected, it is stopped by disconnect() and by the close callback, and
\* a ping is transmitted only while the service is connected.
\* ------------------------------------------------------------------------
C17_PingTimer ==
  /\ Cardinality(pingPending) <= 1
  /\ pingTimer = 0 => pingPending = {}
  /\ pingTimer # 0 => pingPending = {pingTimer}
  /\ isConnected => pingPending # {}
  /\ lastOp.name = "onConnect" => pingPending # {}
  /\ lastOp.name \in {"disconnect", "onWebSocketClose"} => pingPending = {}
  /\ (lastOp.name = "pingTick" /\ sent # <<>>) => isConnected

\* a ping was transmitted after a reconnection
C17_Witness ==
  /\ lastOp.name = "pingTick"
  /\ sent # <<>>
  /\ sent[1].sess = 2

\* ------------------------------------------------------------------------
\* C18: a remote order_item_marked event adds the item to the set of its
\* order when marked and removes it otherwise, keeps the other items of
\* the order and the sets of the other orders, gives the same mapping when
\* applied twice, and the resulting mapping is what localStorage holds
\* under 'markedItems'.
\* ------------------------------------------------------------------------
ItemSet(m, orderId) ==
  {MapGet(m, orderId)[i] : i \in 1..Len(MapGet(m, orderId))}

C18_RemoteMark ==
  [][ pageOp'.name = "markEvt"
        => \A c \in Clients :
             linked[c]
               => /\ ItemSet(markedItems'[c], pageOp'.evt.orderId) =
                       (IF pageOp'.evt.marked
                        THEN ItemSet(markedItems[c], pageOp'.evt.orderId)
                               \cup {pageOp'.evt.itemId}
                        ELSE ItemSet(markedItems[c], pageOp'.evt.orderId)
                               \ {pageOp'.evt.itemId})
                  /\ Len(MapGet(markedItems'[c], pageOp'.evt.orderId)) =
                       Cardinality(ItemSet(markedItems'[c], pageOp'.evt.orderId))
                  /\ \A o \in Orders \ {pageOp'.evt.orderId} :
                       /\ MapHas(markedItems'[c], o) = MapHas(markedItems[c], o)
                       /\ MapGet(markedItems'[c], o) = MapGet(markedItems[c], o)
                  /\ handleMarkEvt(markedItems'[c], pageOp'.evt) =
                       markedItems'[c]
                  /\ localStorage'[c] =
                       [kind |-> "json", entries |-> markedItems'[c]] ]_vars

\* a remote event added an item to an order that had one marked already
C18_Witness ==
  /\ pageOp.name = "markEvt"
  /\ pageOp.evt.marked
  /\ \E c \in Clients :
       /\ linked[c]
       /\ Len(MapGet(markedItems[c], pageOp.evt.orderId)) = 2
       /\ localStorage[c] = [kind |-> "json", entries |-> markedItems[c]]

\* ------------------------------------------------------------------------
\* C19: a toggle made while the service is connected toggles the item in
\* the local mapping and transmits {orderId, itemId, marked}, marked being
\* the new state, to /app/order-item-marks.
\* ------------------------------------------------------------------------
C19_ToggleTransmits ==
  [][ (pageOp'.name = "toggle" /\ linked[pageOp'.client])
        => /\ pageOp'.evt.marked =
                ~SetHas(MapGet(markedItems[pageOp'.client],
                               pageOp'.evt.orderId), pageOp'.evt.itemId)
           /\ pageOp'.evt.marked =
                SetHas(MapGet(markedItems'[pageOp'.client],
                              pageOp'.evt.orderId), pageOp'.evt.itemId)
           /\ outbox' = <<[destination |-> "/app/order-item-marks",
                           body |-> pageOp'.evt]>> ]_vars

\* ------------------------------------------------------------------------
\* C20: once no traffic is in flight (and no client missed a broadcast)
\* the two clients hold the same set of marked items for every order.
\* ------------------------------------------------------------------------
C20_Converge ==
  (synced /\ outbox = <<>>)
    => \A o \in Orders : ItemSet(markedItems[1], o) = ItemSet(markedItems[2], o)

\* ------------------------------------------------------------------------
\* The orders page
\* ------------------------------------------------------------------------
\* the entry of order id in a list that has one
EntryOf(list, id) == list[CHOOSE i \in 1..Len(list) : list[i].id = id]

NoDuplicates(list) ==
  \A i, j \in 1..Len(list) : list[i].id = list[j].id => i = j

\* the mapping a Map stands for: the set of items of each order it holds
AsMapping(m) ==
  [o \in {m[i].key : i \in 1..Len(m)} |->
     {MapGet(m, o)[k] : k \in 1..Len(MapGet(m, o))}]

\* ------------------------------------------------------------------------
\* C21: after an order_update that moves an order of the list from a
\* status other than DONE to DONE, after an order_deleted, after a
\* confirmed payment_update and after an order left the visible list, the
\* in-memory mapping of marked items has no entry for that order.
\* ------------------------------------------------------------------------
C21_MarksPruned ==
  [][ (page.mounted /\ page'.mounted) =>
        \A id \in Orders :
          ( \/ /\ pgOp'.name = "order_update"
               /\ pgOp'.id = id
               /\ Exists(page.orders, id)
               /\ EntryOf(page.orders, id).status # "DONE"
               /\ EntryOf(page'.orders, id).status = "DONE"
            \/ /\ pgOp'.name \in {"order_deleted", "payment_update"}
               /\ pgOp'.id = id
            \/ id \in OrderIds(page.orders) \ OrderIds(page'.orders) )
          => ~MapHas(page'.markedItems, id) ]_vars

\* ------------------------------------------------------------------------
\* C22: after every operation that changes the in-memory mapping of marked
\* items the value stored under 'markedItems' holds that mapping, and the
\* mapping a mounting page loads is the stored one.
\* ------------------------------------------------------------------------
C22_MarksPersisted ==
  [][ ( /\ page'.mounted
        /\ \/ page.mounted /\ page'.markedItems # page.markedItems
           \/ pgOp'.name = "mount" )
      => AsMapping(loadMarkedItems(store'.markedItems)) =
           AsMapping(page'.markedItems) ]_vars

\* ------------------------------------------------------------------------
\* C23: when a REST fetch completes the visible list holds one entry per
\* order id; for every id of the response, once the deleted ids are
\* filtered out of it, the entry is the one of the response, and a local
\* entry whose id that response lacks is kept.
\* ------------------------------------------------------------------------
C23_FetchMerge ==
  [][ pgOp'.name = "fetchDone" =>
        LET filteredOrders == pgOp'.data
        IN /\ NoDuplicates(page'.orders)
           /\ \A k \in 1..Len(filteredOrders) :
                /\ Exists(page'.orders, filteredOrders[k].id)
                /\ EntryOf(page'.orders, filteredOrders[k].id) =
                     filteredOrders[k]
           /\ \A k \in 1..Len(page.orders) :
                ~Exists(filteredOrders, page.orders[k].id) =>
                  /\ Exists(page'.orders, page.orders[k].id)
                  /\ EntryOf(page'.orders, page.orders[k].id) =
                       page.orders[k]
           /\ OrderIds(page'.orders) =
                OrderIds(page.orders) \cup OrderIds(filteredOrders) ]_vars

\* a fetch completed: the order of the response is in the list and the
\* order of an event, which the response lacks, was kept
C23_Witness ==
  /\ pgOp.name = "fetchDone"
  /\ page.orders = << Order("orderA", "DONE", "event"),
                      Order("orderB", "PENDING", "fetch") >>
  /\ page.hasRecentWebSocketData

\* ------------------------------------------------------------------------
\* C28: the visible order list never holds two entries with the same id,
\* after any sequence of hand-offs on mount, fetch completions,
\* order_update, order_deleted and payment_update events; an order_update
\* for an id of the list replaces the entry of that id.
\* ------------------------------------------------------------------------
C28_NoDuplicates ==
  [][ /\ NoDuplicates(page'.orders)
      /\ \A o \in OrderEvents :
           ( /\ pgOp'.name = "order_update"
             /\ OrderUpdate(o)
             /\ page.mounted
             /\ Exists(page.orders, o.id) ) =>
             /\ Len(page'.orders) = Len(page.orders)
             /\ EntryOf(page'.orders, o.id) = o ]_vars

\* an order_update replaced the entry of an order of the list
C28_Witness ==
  /\ pgOp = PgOp("order_update", "orderA")
  /\ page.orders = << Order("orderA", "DONE", "event"),
                      Order("orderB", "PENDING", "created") >>
  /\ page.hasRecentWebSocketData
  /\ fetches # <<>>

\* ------------------------------------------------------------------------
\* C24: once an order id was removed locally by order_deleted or by a
\* confirmed payment_update, every fetch result processed afterwards has
\* the id filtered out and the order does not come back with it, whatever
\* started the fetch and also when it was in flight at the deletion.
\* ------------------------------------------------------------------------
C24_DeletedFiltered ==
  [][ pgOp'.name = "fetchDone" =>
        \A id \in Orders :
          SetHas(page.deletedOrderIds, id) =>
            /\ ~Exists(pgOp'.data, id)
            /\ ~Exists(page.orders, id) => ~Exists(page'.orders, id) ]_vars

\* ------------------------------------------------------------------------
\* C25: an order_deleted the service emits while no OrdersPage is mounted
\* is recorded in the list stored under 'missedOrderDeletions'; a fetch
\* of the next page filters the recorded ids and clears the stored list.
\* ------------------------------------------------------------------------
C25_MissedDeletionRecorded ==
  [][ /\ ( /\ pgOp'.name = "order_deleted"
           /\ pgOp'.id # ""
           /\ ~page.mounted )
        => SetHas(store'.missedOrderDeletions.ids, pgOp'.id)
      /\ pgOp'.name = "fetchDone"
        => /\ store'.missedOrderDeletions = NoMissed
           /\ \A k \in 1..Len(store.missedOrderDeletions.ids) :
                ~Exists(pgOp'.data, store.missedOrderDeletions.ids[k]) ]_vars

\* ------------------------------------------------------------------------
\* C29: an order id of the locally-deleted list is never put back in the
\* visible list; a later order_update carrying the id does not add the
\* order.  (What a fetch result puts back is the subject of C24.)
\* ------------------------------------------------------------------------
C29_DeletedStaysOut ==
  [][ (page.mounted /\ page'.mounted /\ pgOp'.name # "fetchDone") =>
        \A id \in Orders :
          (SetHas(page.deletedOrderIds, id) /\ ~Exists(page.orders, id))
            => ~Exists(page'.orders, id) ]_vars

\* ------------------------------------------------------------------------
\* C26: when the page becomes visible again the re-fetch is skipped if
\* hasRecentWebSocketData is set (an event or a fetch within 5 minutes) or
\* if orders are known and the last fetch is younger than 2 minutes, and
\* is performed otherwise, on the values current at that time.
\* ------------------------------------------------------------------------
C26_StalenessGate ==
  [][ pgOp'.name = "visible" =>
        LET fresh == \/ page.hasRecentWebSocketData
                     \/ /\ Len(page.orders) > 0
                        /\ now - page.lastFetchTime < StaleAfter
        IN /\ fresh => fetches' = fetches
           /\ ~fresh => Len(fetches') = Len(fetches) + 1 ]_vars

\* ------------------------------------------------------------------------
\* C30: the isConnected of the provider is true after every successful
\* connect and false after every connect failure, transport close and
\* disconnect(), for as long as the provider is mounted, also after the
\* page registered and removed its own listeners; the callbacks of the
\* provider stay registered.
\* ------------------------------------------------------------------------
C30_ProviderTracks ==
  [][ (provider.mounted /\ provider'.mounted) =>
        /\ (\E s \in Sessions : OnConnect(s)) => provider'.isConnected
        /\ ( \/ \E s \in Sessions, e \in Errors : OnStompError(s, e)
             \/ \E s \in Sessions : OnWebSocketClose(s)
             \/ Disconnect ) => ~provider'.isConnected
        /\ provider.handleConnect \in IdsOf(eventListeners'["connect"])
        /\ provider.handleDisconnect \in IdsOf(eventListeners'["disconnect"])
        /\ provider.handleConnectError \in
             IdsOf(eventListeners'["connect_error"]) ]_vars

\* ------------------------------------------------------------------------
\* C27: in every reachable state of the service the flags isConnected and
\* isConnecting are never both true, whatever the interleaving of
\* connect(), disconnect(), the timers and the success, failure and close
\* callbacks, those of an earlier session included.
\* ------------------------------------------------------------------------
C27_NotBoth == ~(isConnected /\ isConnecting)

\* the success callback of a session the service no longer holds has run
C27_Witness ==
  /\ lastOp.name = "onConnect"
  /\ lastOp.sess # stompClient
  /\ isConnected

Next ==
  \/ Connect
  \/ Online
  \/ ReconnectFire
  \/ ConnectStep
  \/ SubscribeStep
  \/ Disconnect
  \/ PingTick
  \/ \E s \in Sessions : OnConnect(s)
  \/ \E s \in Sessions, e \in Errors : OnStompError(s, e)
  \/ \E s \in Sessions : OnWebSocketClose(s)
  \/ \E s \in Sessions : LibraryReconnect(s)
  \/ \E s \in Sessions, events \in FrameOutcomes : Frame(s, events)

Spec == Init /\ [][Next]_vars

\* the service with the UI calling send(): the connection life cycle and
\* the two callers of send(), the UI and the ping interval
NextSend ==
  \/ Connect
  \/ ReconnectFire
  \/ ConnectStep
  \/ SubscribeStep
  \/ Disconnect
  \/ PingTick
  \/ Send
  \/ \E s \in Sessions : OnConnect(s)
  \/ \E s \in Sessions, e \in Errors : OnStompError(s, e)
  \/ \E s \in Sessions : OnWebSocketClose(s)
  \/ \E s \in Sessions : LibraryReconnect(s)

SpecSend == Init /\ [][NextSend]_vars
====
